---- MODULE Spec2Model ----
(***************************************************************************)
(* The analysis pipeline of nexus: start_analysis / cancel_analysis        *)
(* (commands/analysis.rs) driving AnalysisEngine::analyze (analysis/       *)
(* engine.rs) over the thread-shared Parser (analysis/parser.rs).          *)
(*                                                                         *)
(* Paths are sequences of components ("src/app.ts" is <<"src","app.ts">>), *)
(* so string equality of two paths is equality of the sequences.           *)
(* Fresh UUIDs are drawn from the counter nextId.                          *)
(*                                                                         *)
(* Spec is one whole run.  SpecDiscover, SpecParallel and SpecResolve are  *)
(* its phases on larger projects; SpecOverlap is several start_analysis    *)
(* calls on one project; SpecExtract is the symbol extractors              *)
(* (analysis/extractors) on syntax trees.                                  *)
(***************************************************************************)
EXTENDS Integers, Sequences, FiniteSets, TLC

\* ------------------------------------------------------------------ bounds
MaxEntries == 2      \* entries the directory walk yields in a full run
MaxWalk    == 3      \* entries the directory walk yields when discovery runs alone
MaxRuns    == 2      \* start_analysis calls on one project
MaxItems   == 2      \* top-level nodes of a source file handed to an extractor
MaxResolve == 3      \* files of a project whose imports are resolved on their own

\* ------------------------------------------------------- language classifier
Parseable     == {"typescript", "javascript", "python", "go", "rust", "c"}
DiscoveryOnly == {"json", "yaml", "markdown", "html", "css", "plist", "shell"}
NoLanguage    == "none"

\* str::to_lowercase on the extensions the walk entries carry
to_lowercase(s) ==
    CASE s = "TS"   -> "ts"
      [] s = "JS"   -> "js"
      [] s = "MD"   -> "md"
      [] s = "Py"   -> "py"
      [] s = "JSON" -> "json"
      [] OTHER      -> s

\* the match arms of SupportedLanguage::from_extension (NoLanguage is None)
match_extension(ext) ==
    CASE ext \in {"ts", "tsx"}                 -> "typescript"
      [] ext \in {"js", "jsx", "mjs", "cjs"}   -> "javascript"
      [] ext \in {"py", "pyw"}                 -> "python"
      [] ext = "go"                            -> "go"
      [] ext = "rs"                            -> "rust"
      [] ext \in {"c", "h"}                    -> "c"
      [] ext = "swift"                         -> "swift"
      [] ext = "json"                          -> "json"
      [] ext \in {"yaml", "yml"}               -> "yaml"
      [] ext \in {"md", "markdown"}            -> "markdown"
      [] ext \in {"html", "htm"}               -> "html"
      [] ext \in {"css", "scss", "sass", "less"} -> "css"
      [] ext = "plist"                         -> "plist"
      [] ext \in {"sh", "bash", "zsh"}         -> "shell"
      [] OTHER                                 -> NoLanguage

\* SupportedLanguage::from_extension
from_extension(ext) == match_extension(to_lowercase(ext))

\* SupportedLanguage::requires_parsing
requires_parsing(lang) == lang \in Parseable

\* SupportedLanguage::tree_sitter_language: a grammar, or a panic
tree_sitter_language(lang) == IF lang \in Parseable THEN "grammar" ELSE "panic"

\* ------------------------------------------------------------- walk entries
File(dir, stem, ext, imports, syms) ==
    [kind |-> "file", dir |-> dir, stem |-> stem, ext |-> ext,
     imports |-> imports, syms |-> syms]
Dir(dir, stem, ext) ==
    [kind |-> "dir", dir |-> dir, stem |-> stem, ext |-> ext,
     imports |-> <<>>, syms |-> <<>>]
WalkError ==
    [kind |-> "err", dir |-> <<>>, stem |-> "", ext |-> "",
     imports |-> <<>>, syms |-> <<>>]

\* what the walker can yield for the project root, each entry once
Catalogue ==
    { File(<<"src">>, "app",   "ts",  << <<".", "utils">>, <<".", "utils">> >>, <<"main">>),
      File(<<"src">>, "utils", "ts",  << <<"fs">> >>, <<"helper", "Util">>),
      File(<<>>,      "readme", "md", <<>>, <<>>),
      File(<<>>,      "App",   "swift", <<>>, <<"App">>),
      File(<<>>,      "notes", "txt", <<>>, <<>>),
      Dir(<<>>,       "chart", "js"),
      WalkError }

\* further entries for walks checked on their own
WalkCatalogue ==
    Catalogue \cup
    { File(<<>>,      "test",  "py",  << <<"os">> >>, <<"run">>),
      File(<<>>,      "Legacy", "JS", <<>>, <<"old">>),
      File(<<>>,      "package", "json", <<>>, <<>>),
      File(<<>>,      "Makefile", "", <<>>, <<>>) }

\* Path::file_name of an entry
FileName(e) == IF e.ext = "" THEN e.stem ELSE e.stem \o "." \o e.ext
\* the entry's path relative to the project root (strip_prefix)
RelPath(e) == e.dir \o <<FileName(e)>>

IsInjective(f) == \A a, b \in DOMAIN f : f[a] = f[b] => a = b
Trees ==
    { t \in UNION { [1..n -> Catalogue] : n \in 0..MaxEntries } : IsInjective(t) }
WalkTrees ==
    { t \in UNION { [1..n -> WalkCatalogue] : n \in 0..MaxWalk } : IsInjective(t) }

\* -------------------------------------------------------------------- state
VARIABLES
    tree,        \* what the directory walk yields, in walk order
    pc,          \* position of the run: start_analysis, analyze, its callers
    engines,     \* AppState.analysis_engines holds the project's engine
    cancelled,   \* AnalysisEngine.cancelled
    walkIdx,     \* next walk entry discover_files reads
    files,       \* discover_files' result so far
    events,      \* the progress channel
    wstatus,     \* per discovered file, the position of its worker closure
    wrec,        \* per discovered file, what its worker produced
    parsers,     \* Parser.parsers: languages with a cached engine
    lockHolder,  \* worker holding the Parser mutex (0: free)
    poisoned,    \* the Parser mutex's poison flag
    nextId,      \* source of fresh UUIDs
    result,      \* what analyze returned
    store,       \* the rows of the project in the repository
    earlyCancel, \* a cancel reached the engine before any file was parsed
    runs,        \* per start_analysis call on the project: position, flag, result
    registered,  \* the call whose engine analysis_engines holds (0: none)
    ast,         \* a source file handed to an extractor: language, top-level nodes
    extracted    \* ParseResult.symbols of that file

vars == <<tree, pc, engines, cancelled, walkIdx, files, events, wstatus, wrec,
          parsers, lockHolder, poisoned, nextId, result, store, earlyCancel,
          runs, registered, ast, extracted>>

\* ------------------------------------------------------------------- events
NoPath == <<>>
NoStats == [total_files |-> 0, total_symbols |-> 0, total_relationships |-> 0]
DefaultProgress ==
    [status |-> "idle", current_file |-> NoPath, files_processed |-> 0,
     total_files |-> 0, percent_complete |-> 0, error_message |-> "",
     statistics |-> NoStats]

\* AnalysisProgress::started
started(total) ==
    [DefaultProgress EXCEPT !.status = "analyzing", !.total_files = total]
parsing_ZeroBased(path, processed, total) ==
    [DefaultProgress EXCEPT !.status = "analyzing", !.current_file = path,
        !.files_processed = processed - 1, !.total_files = total,
        !.percent_complete = IF total > 0 THEN ((processed - 1) * 100) \div total ELSE 0]
\* AnalysisProgress::parsing
parsing(path, processed, total) ==
    [DefaultProgress EXCEPT !.status = "analyzing", !.current_file = path,
        !.files_processed = processed, !.total_files = total,
        !.percent_complete = IF total > 0 THEN (processed * 100) \div total ELSE 0]
\* AnalysisProgress::completed
completed(nf, ns, nr) ==
    [DefaultProgress EXCEPT !.status = "complete", !.files_processed = nf,
        !.total_files = nf, !.percent_complete = 100,
        !.statistics = [total_files |-> nf, total_symbols |-> ns,
                        total_relationships |-> nr]]
\* AnalysisProgress::error
error(message) ==
    [DefaultProgress EXCEPT !.status = "error", !.error_message = message]
\* AnalysisProgress::cancelled
cancelledEvent == [DefaultProgress EXCEPT !.status = "cancelled"]
\* the discovery notification of discover_files
discovering(path) ==
    [DefaultProgress EXCEPT !.status = "analyzing", !.current_file = path]
\* the notification before resolve_relationships
resolving(processed, total) ==
    [DefaultProgress EXCEPT !.status = "analyzing",
        !.current_file = <<"Resolving relationships...">>,
        !.files_processed = processed, !.total_files = total,
        !.percent_complete = 90]

NoResult == [kind |-> "none", error |-> "", files |-> <<>>, symbols |-> <<>>,
             relationships |-> <<>>]
\* recovered: lock() found the mutex poisoned and took the guard anyway
NoRec == [file_id |-> 0, out |-> "none", fault |-> "none", recovered |-> FALSE,
          created |-> FALSE,
          symbols |-> <<>>, imports |-> <<>>]

\* rows a previous run left in the store
PriorStore ==
    [files |-> {[id |-> 0, name |-> "old.ts", path |-> <<"old.ts">>,
                 language |-> "typescript"]},
     symbols |-> {[id |-> -1, file_id |-> 0, name |-> "stale"]},
     relationships |-> {[id |-> -2, source_id |-> 0, target_id |-> 0,
                         kind |-> "imports"]}]
EmptyStore == [files |-> {}, symbols |-> {}, relationships |-> {}]
\* no file has been handed to an extractor
NoAst == [lang |-> NoLanguage, items |-> <<>>]
NotExtracted == [done |-> FALSE, file_id |-> 0, symbols |-> <<>>]
\* no start_analysis call has been made
NoRuns == [r \in 1..MaxRuns |-> [pc |-> "idle", cancelled |-> FALSE, result |-> NoResult]]

Init ==
    /\ tree \in Trees
    /\ pc = "init"
    /\ engines = FALSE
    /\ cancelled = FALSE
    /\ walkIdx = 1
    /\ files = <<>>
    /\ events = <<>>
    /\ wstatus = <<>>
    /\ wrec = <<>>
    /\ parsers = {}
    /\ lockHolder = 0
    /\ poisoned = FALSE
    /\ nextId = 1
    /\ result = NoResult
    /\ store = PriorStore
    /\ earlyCancel = FALSE
    /\ runs = NoRuns
    /\ registered = 0
    /\ ast = NoAst
    /\ extracted = NotExtracted

\* ------------------------------------------------------------ small helpers
Last(s) == s[Len(s)]
Front(s) == SubSeq(s, 1, Len(s) - 1)
MaxOf(S) == CHOOSE x \in S : \A y \in S : y <= x
MinOf(S) == CHOOSE x \in S : \A y \in S : x <= y
RECURSIVE Flatten(_)
Flatten(ss) == IF ss = <<>> THEN <<>> ELSE Head(ss) \o Flatten(Tail(ss))
Range(s) == { s[k] : k \in DOMAIN s }

\* ------------------------------------------------------------ command layer
\* start_analysis up to tokio::task::spawn_blocking
StartAnalysis ==
    /\ pc = "init"
    /\ \E found \in BOOLEAN :
         IF found
         THEN /\ store' = EmptyStore          \* clear_project_data
              /\ engines' = TRUE              \* engines.insert(project_id, engine)
              /\ cancelled' = FALSE           \* AnalysisEngine::new
              /\ pc' = "spawned"
         ELSE /\ pc' = "rejected"             \* Err(ProjectNotFound), nothing spawned
              /\ UNCHANGED <<store, engines, cancelled>>
    /\ UNCHANGED <<tree, walkIdx, files, events, wstatus, wrec, parsers,
                   lockHolder, poisoned, nextId, result, earlyCancel>>
    /\ UNCHANGED <<runs, registered, ast, extracted>>

\* no worker closure has got past its cancellation poll
NoFileParsed == \A i \in DOMAIN wstatus : wstatus[i] \in {"pending", "skipped"}

\* AnalysisEngine::cancel
cancel == cancelled' = TRUE

\* cancel_analysis
CancelAnalysis ==
    /\ IF engines THEN cancel ELSE UNCHANGED cancelled
    /\ earlyCancel' = (earlyCancel \/
          (engines /\ (pc \in {"spawned", "discover"}
                       \/ (pc = "parsing" /\ NoFileParsed))))
    /\ UNCHANGED <<tree, pc, engines, walkIdx, files, events, wstatus, wrec,
                   parsers, lockHolder, poisoned, nextId, result, store>>
    /\ UNCHANGED <<runs, registered, ast, extracted>>

\* ------------------------------------------------------------------ analyze
\* AnalysisEngine::is_cancelled
is_cancelled == cancelled

\* analyze, line 164: reset the cancellation flag
AnalyzeReset ==
    /\ pc = "spawned"
    /\ cancelled' = FALSE
    /\ pc' = "discover"
    /\ UNCHANGED <<tree, engines, walkIdx, files, events, wstatus, wrec,
                   parsers, lockHolder, poisoned, nextId, result, store, earlyCancel>>
    /\ UNCHANGED <<runs, registered, ast, extracted>>

\* discover_files: the test an entry passes to be returned
is_supported_entry_NoFileCheck(e) ==
    from_extension(e.ext) # NoLanguage
is_supported_entry(e) ==
    e.kind = "file" /\ from_extension(e.ext) # NoLanguage

DiscoverStep_SkipErrors ==
    /\ pc = "discover"
    /\ walkIdx <= Len(tree)
    /\ walkIdx' = walkIdx + 1
    /\ IF is_supported_entry(tree[walkIdx])
       THEN /\ events' = Append(events, discovering(RelPath(tree[walkIdx])))
            /\ files' = Append(files, tree[walkIdx])
       ELSE UNCHANGED <<events, files>>
    /\ UNCHANGED <<tree, pc, result, engines, cancelled, wstatus, wrec, parsers,
                   lockHolder, poisoned, nextId, store, earlyCancel>>
    /\ UNCHANGED <<runs, registered, ast, extracted>>
\* discover_files: one iteration of the walk
DiscoverStep ==
    /\ pc = "discover"
    /\ walkIdx <= Len(tree)
    /\ LET e == tree[walkIdx] IN
         IF e.kind = "err"
         THEN \* entry? returns the walk's error out of analyze
              /\ result' = [NoResult EXCEPT !.kind = "error",
                                            !.error = "Invalid ignore pattern"]
              /\ pc' = "returned"
              /\ UNCHANGED <<walkIdx, files, events>>
         ELSE /\ walkIdx' = walkIdx + 1
              /\ IF is_supported_entry(e)
                 THEN /\ events' = Append(events, discovering(RelPath(e)))
                      /\ files' = Append(files, e)
                 ELSE UNCHANGED <<events, files>>
              /\ UNCHANGED <<result, pc>>
    /\ UNCHANGED <<tree, engines, cancelled, wstatus, wrec, parsers,
                   lockHolder, poisoned, nextId, store, earlyCancel>>
    /\ UNCHANGED <<runs, registered, ast, extracted>>

\* analyze, lines 169-174: the poll after discovery, then "started"
AfterDiscovery ==
    /\ pc = "discover"
    /\ walkIdx > Len(tree)
    /\ IF is_cancelled
       THEN /\ result' = [NoResult EXCEPT !.kind = "cancelled",
                                          !.error = "Analysis cancelled"]
            /\ pc' = "returned"
            /\ UNCHANGED <<events, wstatus, wrec>>
       ELSE /\ events' = Append(events, started(Len(files)))
            /\ wstatus' = [i \in 1..Len(files) |-> "pending"]
            /\ wrec' = [i \in 1..Len(files) |-> NoRec]
            /\ pc' = "parsing"
            /\ UNCHANGED result
    /\ UNCHANGED <<tree, engines, cancelled, walkIdx, files, parsers,
                   lockHolder, poisoned, nextId, store, earlyCancel>>
    /\ UNCHANGED <<runs, registered, ast, extracted>>

\* ------------------------------------------------------------------- Parser
\* faults a file's content or the environment can inject into its parse
Injected == {"none", "no_tree", "panic_locked", "panic_extract"}

\* Parser::parse between taking and dropping the mutex guard: get or create
\* the language's engine (created: or_insert_with built it), then parse. out is "tree", "err" (ParseError) or
\* "panic"; a panic unwinds with the guard held and poisons the mutex.
Parser_parse(lang, cache, inj) ==
    IF lang \notin cache /\ tree_sitter_language(lang) = "panic"
    THEN [out |-> "panic", cache |-> cache, poison |-> TRUE, created |-> FALSE]
    ELSE LET cache2 == cache \cup {lang}
             created == lang \notin cache IN
         CASE inj = "panic_locked" ->
                [out |-> "panic", cache |-> cache2, poison |-> TRUE,
                 created |-> created]
           [] inj = "no_tree" ->
                [out |-> "err", cache |-> cache2, poison |-> FALSE,
                 created |-> created]
           [] OTHER ->
                [out |-> "tree", cache |-> cache2, poison |-> FALSE,
                 created |-> created]

\* the extractor Parser::parse_file dispatches to: symbols and raw imports
extract(file_id, lang, e, firstId) ==
    IF lang \in DiscoveryOnly
    THEN [symbols |-> <<>>, imports |-> <<>>]
    ELSE [symbols |-> [k \in 1..Len(e.syms) |->
                          [id |-> firstId + k - 1, file_id |-> file_id,
                           name |-> e.syms[k]]],
          imports |-> e.imports]

\* Parser::parse_file after the guard is taken: parse, then extract
Parser_parse_file(file_id, lang, e, cache, inj, firstId) ==
    LET p == Parser_parse(lang, cache, inj) IN
    IF p.out # "tree"
    THEN [out |-> p.out, cache |-> p.cache, poison |-> p.poison,
          created |-> p.created, symbols |-> <<>>, imports |-> <<>>]
    ELSE IF inj = "panic_extract"
    THEN [out |-> "panic", cache |-> p.cache, poison |-> FALSE,
          created |-> p.created, symbols |-> <<>>, imports |-> <<>>]
    ELSE LET x == extract(file_id, lang, e, firstId) IN
         [out |-> "ok", cache |-> p.cache, poison |-> FALSE,
          created |-> p.created, symbols |-> x.symbols, imports |-> x.imports]

\* ------------------------------------------------------------------ workers
\* the worker closure up to Parser::parse's lock: poll the flag, emit
\* "parsing", then AnalysisEngine::parse_file's read_to_string and file id
WorkerStart(i) ==
    /\ pc = "parsing"
    /\ wstatus[i] = "pending"
    /\ IF is_cancelled
       THEN /\ wstatus' = [wstatus EXCEPT ![i] = "skipped"]
            /\ UNCHANGED <<events, wrec, nextId>>
       ELSE /\ events' = Append(events, parsing(RelPath(files[i]), i, Len(files)))
            /\ \E readOk \in BOOLEAN :
                 IF from_extension(files[i].ext) = NoLanguage \/ ~readOk
                 THEN /\ wstatus' = [wstatus EXCEPT ![i] = "done"]
                      /\ wrec' = [wrec EXCEPT ![i] =
                                    [NoRec EXCEPT !.out = "err", !.fault = "read"]]
                      /\ UNCHANGED nextId
                 ELSE /\ wstatus' = [wstatus EXCEPT ![i] = "started"]
                      /\ wrec' = [wrec EXCEPT ![i] = [NoRec EXCEPT !.file_id = nextId]]
                      /\ nextId' = nextId + 1
    /\ UNCHANGED <<tree, pc, engines, cancelled, walkIdx, files, parsers,
                   lockHolder, poisoned, result, store, earlyCancel>>
    /\ UNCHANGED <<runs, registered, ast, extracted>>

\* Parser::parse, line 142: lock(), taking the guard of a poisoned mutex too
WorkerLock_Unwrap(i) ==
    /\ wstatus[i] = "started"
    /\ lockHolder = 0
    /\ IF poisoned
       THEN /\ wstatus' = [wstatus EXCEPT ![i] = "done"]
            /\ wrec' = [wrec EXCEPT ![i].out = "panic"]
            /\ UNCHANGED lockHolder
       ELSE /\ lockHolder' = i
            /\ wstatus' = [wstatus EXCEPT ![i] = "locked"]
            /\ UNCHANGED wrec
    /\ UNCHANGED <<tree, pc, engines, cancelled, walkIdx, files, events,
                   parsers, poisoned, nextId, result, store, earlyCancel>>
    /\ UNCHANGED <<runs, registered, ast, extracted>>
WorkerLock(i) ==
    /\ wstatus[i] = "started"
    /\ lockHolder = 0
    /\ lockHolder' = i
    /\ wstatus' = [wstatus EXCEPT ![i] = "locked"]
    /\ wrec' = [wrec EXCEPT ![i].recovered = poisoned]
    /\ UNCHANGED <<tree, pc, engines, cancelled, walkIdx, files, events,
                   parsers, poisoned, nextId, result, store, earlyCancel>>
    /\ UNCHANGED <<runs, registered, ast, extracted>>

\* the rest of Parser::parse_file and of the closure: parse under the guard,
\* drop it, extract; catch_unwind turns a panic into a dropped file
WorkerParse(i) ==
    /\ wstatus[i] = "locked"
    /\ lockHolder = i
    /\ LET lang == from_extension(files[i].ext) IN
       \E inj \in (IF tree_sitter_language(lang) = "panic" THEN {"none"} ELSE Injected) :
         LET r == Parser_parse_file(wrec[i].file_id, lang, files[i], parsers, inj, nextId) IN
         /\ parsers' = r.cache
         /\ poisoned' = (poisoned \/ r.poison)
         /\ nextId' = nextId + Len(r.symbols)
         /\ wrec' = [wrec EXCEPT ![i] =
                       [file_id |-> wrec[i].file_id, out |-> r.out,
                        recovered |-> wrec[i].recovered,
                        created |-> r.created,
                        fault |-> IF tree_sitter_language(lang) = "panic"
                                  THEN "grammar" ELSE inj,
                        symbols |-> r.symbols, imports |-> r.imports]]
    /\ lockHolder' = 0
    /\ wstatus' = [wstatus EXCEPT ![i] = "done"]
    /\ UNCHANGED <<tree, pc, engines, cancelled, walkIdx, files, events,
                   result, store, earlyCancel>>
    /\ UNCHANGED <<runs, registered, ast, extracted>>

\* ---------------------------------------------------- relationship resolver
NoId == 0
Suffixes == <<"", ".ts", ".tsx", ".js", ".jsx", ".py", ".go", ".rs", ".c", ".h">>
IndexFiles == <<"index.ts", "index.tsx", "index.js", "index.jsx">>
\* first components that begin with '.'
DotLeading == {".", "..", ".utils", ".hidden"}

\* HashMap::get on path_to_id, collected from (f.path, f.id): the last file
\* inserted under a key is the one the map holds
path_to_id(fs, k) ==
    LET hits == { j \in DOMAIN fs : fs[j].path = k } IN
    IF hits = {} THEN NoId ELSE fs[MaxOf(hits)].id
\* HashMap::get on name_to_id, collected from (f.name, f.id)
name_to_id(fs, k) ==
    LET hits == { j \in DOMAIN fs : fs[j].name = k } IN
    IF hits = {} THEN NoId ELSE fs[MaxOf(hits)].id

\* format!("{}{}", path, ext) on a path of components
WithSuffix(path, ext) ==
    IF path = <<>> THEN <<ext>> ELSE Front(path) \o <<Last(path) \o ext>>

\* the probe loops: the first lookup, in order, that found an id
FirstHit(ids) ==
    LET hits == { k \in DOMAIN ids : ids[k] # NoId } IN
    IF hits = {} THEN NoId ELSE ids[MinOf(hits)]

\* Path::file_name of an import: "" is None
import_file_name(imp) ==
    LET norm == SelectSeq(imp, LAMBDA c : c # ".") IN
    IF norm = <<>> \/ Last(norm) = ".." THEN "" ELSE Last(norm)

\* resolve_import
resolve_import(import_source, current_path, fs) ==
    LET relative == import_source # <<>> /\ import_source[1] \in DotLeading
        import_path == Front(current_path) \o import_source
        byPath == FirstHit([k \in DOMAIN Suffixes |->
                              path_to_id(fs, WithSuffix(import_path, Suffixes[k]))])
        byIndex == FirstHit([k \in DOMAIN IndexFiles |->
                               path_to_id(fs, import_path \o <<IndexFiles[k]>>)])
        file_name == import_file_name(import_source)
        byName == FirstHit([k \in DOMAIN Suffixes |->
                              name_to_id(fs, file_name \o Suffixes[k])])
    IN  IF relative /\ byPath # NoId THEN byPath
        ELSE IF relative /\ byIndex # NoId THEN byIndex
        ELSE IF file_name = "" THEN NoId
        ELSE byName

resolve_relationships_KeepUnresolved(fs, file_imports, firstId) ==
    LET perFile(f) ==
            LET imps == file_imports[f.id]
            IN  [k \in DOMAIN imps |->
                    [source_id |-> f.id,
                     target_id |-> resolve_import(imps[k], f.path, fs)]]
        edges == Flatten([k \in DOMAIN fs |-> perFile(fs[k])])
    IN  [k \in DOMAIN edges |->
            [id |-> firstId + k - 1, source_id |-> edges[k].source_id,
             target_id |-> edges[k].target_id, kind |-> "imports"]]
\* resolve_relationships: one record per import that resolves, in file order
\* then import order, each with a fresh id
resolve_relationships(fs, file_imports, firstId) ==
    LET perFile(f) ==
            LET imps == file_imports[f.id]
                targets == [k \in DOMAIN imps |-> resolve_import(imps[k], f.path, fs)]
                found == SelectSeq(targets, LAMBDA t : t # NoId)
            IN  [k \in DOMAIN found |-> [source_id |-> f.id, target_id |-> found[k]]]
        edges == Flatten([k \in DOMAIN fs |-> perFile(fs[k])])
    IN  [k \in DOMAIN edges |->
            [id |-> firstId + k - 1, source_id |-> edges[k].source_id,
             target_id |-> edges[k].target_id, kind |-> "imports"]]

\* ----------------------------------------------------- analyze, after parsing
parsed_results_ByArrival ==
    LET ok == { i \in DOMAIN wstatus : wstatus[i] = "done" /\ wrec[i].out = "ok" }
    IN  [k \in 1..Cardinality(ok) |->
            CHOOSE i \in ok :
                Cardinality({ j \in ok : wrec[j].file_id < wrec[i].file_id }) = k - 1]
parsed_results_KeepFaulted ==
    SelectSeq([i \in DOMAIN wstatus |-> i],
              LAMBDA i : wstatus[i] = "done" /\ wrec[i].file_id # 0)
\* the indices filter_map kept, in the order of the discovered files
parsed_results ==
    SelectSeq([i \in DOMAIN wstatus |-> i],
              LAMBDA i : wstatus[i] = "done" /\ wrec[i].out = "ok")

\* the FileRecord AnalysisEngine::parse_file builds
FileRecord(i) ==
    [id |-> wrec[i].file_id, name |-> FileName(files[i]),
     path |-> RelPath(files[i]),
     language |-> from_extension(files[i].ext)]

\* analyze, lines 207-210: cancellation seen after the parallel phase
ReturnCancelled ==
    /\ events' = Append(events, cancelledEvent)
    /\ result' = [NoResult EXCEPT !.kind = "cancelled",
                                  !.error = "Analysis cancelled"]
    /\ UNCHANGED nextId

\* analyze, lines 212-243: merge, "resolving" at 90%, resolve, Ok
MergeAndResolve ==
    LET ok == parsed_results
        all_files == [k \in DOMAIN ok |-> FileRecord(ok[k])]
        all_symbols == Flatten([k \in DOMAIN ok |-> wrec[ok[k]].symbols])
        file_imports == [id \in { wrec[ok[k]].file_id : k \in DOMAIN ok } |->
                            LET k == CHOOSE k \in DOMAIN ok : wrec[ok[k]].file_id = id
                            IN  wrec[ok[k]].imports]
        rels == resolve_relationships(all_files, file_imports, nextId)
    IN  /\ events' = Append(events, resolving(Len(all_files), Len(files)))
        /\ result' = [kind |-> "ok", error |-> "", files |-> all_files,
                      symbols |-> all_symbols, relationships |-> rels]
        /\ nextId' = nextId + Len(rels)

AllWorkersDone == \A i \in DOMAIN wstatus : wstatus[i] \in {"done", "skipped"}

AfterParsing_NoRecheck ==
    /\ pc = "parsing"
    /\ AllWorkersDone
    /\ MergeAndResolve
    /\ pc' = "returned"
    /\ UNCHANGED <<tree, engines, cancelled, walkIdx, files, wstatus, wrec,
                   parsers, lockHolder, poisoned, store, earlyCancel>>
    /\ UNCHANGED <<runs, registered, ast, extracted>>
\* analyze once par_iter().collect() has returned
AfterParsing ==
    /\ pc = "parsing"
    /\ AllWorkersDone
    /\ IF is_cancelled THEN ReturnCancelled ELSE MergeAndResolve
    /\ pc' = "returned"
    /\ UNCHANGED <<tree, engines, cancelled, walkIdx, files, wstatus, wrec,
                   parsers, lockHolder, poisoned, store, earlyCancel>>
    /\ UNCHANGED <<runs, registered, ast, extracted>>

\* ------------------------------------------------------------------- store
DbOps == {"upsert_file", "batch_insert_symbols", "batch_insert_relationships"}

\* Repository::upsert_file: ON CONFLICT(project_id, path) keeps the row's id
upsert_file(rows, f) ==
    IF \E r \in rows : r.path = f.path
    THEN LET r == CHOOSE r \in rows : r.path = f.path
         IN  (rows \ {r}) \cup {[f EXCEPT !.id = r.id]}
    ELSE rows \cup {f}

RECURSIVE upsert_files(_, _)
upsert_files(rows, fs) ==
    IF fs = <<>> THEN rows ELSE upsert_files(upsert_file(rows, Head(fs)), Tail(fs))

\* Repository::batch_insert_relationships: INSERT OR IGNORE under
\* UNIQUE (source_id, target_id, kind)
RECURSIVE batch_insert_relationships(_, _)
batch_insert_relationships(rows, rs) ==
    IF rs = <<>> THEN rows
    ELSE LET r == Head(rs)
             dup == \E x \in rows : /\ x.source_id = r.source_id
                                    /\ x.target_id = r.target_id
                                    /\ x.kind = r.kind
         IN  batch_insert_relationships(IF dup THEN rows ELSE rows \cup {r}, Tail(rs))

\* Repository::batch_insert_symbols
batch_insert_symbols(rows, ss) == rows \cup Range(ss)

\* the spawned task of start_analysis after analyze returned: drop the engine
\* from the map, store the result and send the terminal event; a failing
\* repository call is logged and the task goes on
CommandFinish ==
    /\ pc = "returned"
    /\ engines' = FALSE
    /\ pc' = "finished"
    /\ IF result.kind = "ok"
       THEN \E failing \in SUBSET DbOps :
              /\ store' =
                   [files |-> IF "upsert_file" \in failing THEN store.files
                              ELSE upsert_files(store.files, result.files),
                    symbols |-> IF "batch_insert_symbols" \in failing THEN store.symbols
                                ELSE batch_insert_symbols(store.symbols, result.symbols),
                    relationships |->
                        IF "batch_insert_relationships" \in failing
                        THEN store.relationships
                        ELSE batch_insert_relationships(store.relationships,
                                                        result.relationships)]
              /\ events' = Append(events, completed(Len(result.files),
                                                    Len(result.symbols),
                                                    Len(result.relationships)))
       ELSE /\ events' = Append(events, error(result.error))
            /\ UNCHANGED store
    /\ UNCHANGED <<tree, cancelled, walkIdx, files, wstatus, wrec, parsers,
                   lockHolder, poisoned, nextId, result, earlyCancel>>
    /\ UNCHANGED <<runs, registered, ast, extracted>>

\* ------------------------------------------------------------ specification
Next ==
    \/ StartAnalysis
    \/ CancelAnalysis
    \/ AnalyzeReset
    \/ DiscoverStep
    \/ AfterDiscovery
    \/ \E i \in DOMAIN wstatus : WorkerStart(i)
    \/ \E i \in DOMAIN wstatus : WorkerLock(i)
    \/ \E i \in DOMAIN wstatus : WorkerParse(i)
    \/ AfterParsing
    \/ CommandFinish

Spec == Init /\ [][Next]_vars

\* discover_files called on its own, as by test_discover_files: the walk of
\* a registered engine, up to the "started" event that follows it
InitDiscover ==
    /\ tree \in WalkTrees
    /\ pc = "discover"
    /\ engines = TRUE
    /\ cancelled = FALSE
    /\ walkIdx = 1
    /\ files = <<>>
    /\ events = <<>>
    /\ wstatus = <<>>
    /\ wrec = <<>>
    /\ parsers = {}
    /\ lockHolder = 0
    /\ poisoned = FALSE
    /\ nextId = 1
    /\ result = NoResult
    /\ store = EmptyStore
    /\ earlyCancel = FALSE
    /\ runs = NoRuns
    /\ registered = 0
    /\ ast = NoAst
    /\ extracted = NotExtracted

NextDiscover ==
    \/ DiscoverStep
    \/ AfterDiscovery
    \/ CancelAnalysis

SpecDiscover == InitDiscover /\ [][NextDiscover]_vars

\* ================================================================== claims
Terminal == {"complete", "error", "cancelled"}
TerminalEvents == { k \in DOMAIN events : events[k].status \in Terminal }
HasEvent(status) == \E k \in DOMAIN events : events[k].status = status
Returned == pc \in {"returned", "finished"}
LangOf(i) == from_extension(files[i].ext)
Skipped == { i \in DOMAIN wstatus : wstatus[i] = "skipped" }

\* C1: every run that start_analysis spawned puts exactly one terminal event
\* (complete, error or cancelled) on the progress stream: never two at any
\* moment, and one once the spawned task has finished.
C1_ExactlyOneTerminalEvent ==
    /\ Cardinality(TerminalEvents) <= 1
    /\ pc = "finished" => Cardinality(TerminalEvents) = 1

\* C2: a run that ended because the cancellation flag was observed reports
\* status cancelled on the stream and reports neither error nor complete.
C2_CancelledRunReportsCancelled ==
    (pc = "finished" /\ result.kind = "cancelled") =>
        /\ HasEvent("cancelled")
        /\ ~HasEvent("error")
        /\ ~HasEvent("complete")

\* C3: a successful result never coexists with a file a worker skipped on
\* the cancellation flag; a run with a skipped file returns the cancellation
\* outcome, with no file, symbol or relationship and no resolving event.
C3_NoPartialSuccess ==
    /\ result.kind = "ok" => Skipped = {}
    /\ (Returned /\ Skipped # {}) =>
          /\ result.kind = "cancelled"
          /\ result.files = <<>> /\ result.symbols = <<>>
          /\ result.relationships = <<>>
          /\ \A k \in DOMAIN events : events[k].percent_complete # 90
          /\ ~HasEvent("complete")

\* C3 witness: cancel arrived mid-parse: one file was parsed, another skipped
C3_Witness ==
    /\ pc = "returned" /\ result.kind = "cancelled"
    /\ Skipped # {}
    /\ \E j \in DOMAIN wstatus : wrec[j].out = "ok"

\* C4: a cancel that reached the registered engine before any file was
\* parsed is not lost: no worker ever gets past its poll, and the run returns
\* the cancellation outcome with no symbol and no relationship.
C4_EarlyCancelNotLost ==
    earlyCancel =>
        /\ NoFileParsed
        /\ (Returned /\ result.kind # "error") =>
              /\ result.kind = "cancelled"
              /\ result.symbols = <<>> /\ result.relationships = <<>>

\* the files whose own parse+extract faulted (an error or a crash)
OwnFault == { i \in DOMAIN wrec : wrec[i].fault # "none" }
Sound == SelectSeq([i \in DOMAIN wrec |-> i], LAMBDA i : wrec[i].fault = "none")

\* C5: when exactly one discovered file faults and the run is not cancelled,
\* the run returns a result that holds exactly the records, symbols and
\* imports of the other files and nothing of the faulting one; files of the
\* same language locking the parser cache after the fault are among them.
C5_FaultIsolation ==
    (Returned /\ result.kind # "cancelled" /\ wstatus # <<>>
        /\ Cardinality(OwnFault) = 1) =>
        /\ result.kind = "ok"
        /\ result.files = [k \in DOMAIN Sound |-> FileRecord(Sound[k])]
        /\ Len(result.files) = Len(files) - 1
        /\ result.symbols = Flatten([k \in DOMAIN Sound |-> wrec[Sound[k]].symbols])
        /\ \A i \in DOMAIN wrec :
              IF i \in OwnFault
              THEN /\ wrec[i].symbols = <<>> /\ wrec[i].imports = <<>>
                   /\ \A k \in DOMAIN result.symbols :
                         result.symbols[k].file_id # wrec[i].file_id
              ELSE /\ wrec[i].out = "ok"
                   /\ wrec[i].imports = files[i].imports
                   /\ Len(wrec[i].symbols) = Len(files[i].syms)

\* C5 witness: one file crashed holding the parser mutex, and a later file of
\* the same language took the poisoned mutex and was parsed
C5_Witness ==
    /\ pc = "returned" /\ result.kind = "ok"
    /\ \E i, j \in DOMAIN wrec :
          /\ OwnFault = {i} /\ wrec[i].fault = "panic_locked"
          /\ LangOf(i) = LangOf(j)
          /\ wrec[j].recovered /\ wrec[j].out = "ok"
          /\ result.files = <<FileRecord(j)>>

\* C6: a discovered file with a discovery-only tag is never handed to the
\* parser, and a successful result holds its file record with no symbol.
C6_DiscoveryOnlyKept ==
    \A i \in DOMAIN wstatus :
        LangOf(i) \in DiscoveryOnly =>
            /\ wstatus[i] \notin {"started", "locked"}
            /\ result.kind = "ok" =>
                  /\ \E k \in DOMAIN result.files :
                        result.files[k].path = RelPath(files[i])
                  /\ wrec[i].symbols = <<>> /\ wrec[i].imports = <<>>

\* C7: Parser::parse_file on a discovery-only tag ends as an error outcome:
\* not as a successful (empty) result and not as a crash of the worker.
C7_DeepParseIsError ==
    \A i \in DOMAIN wstatus :
        (LangOf(i) \in DiscoveryOnly /\ wstatus[i] = "done"
            /\ wrec[i].fault # "read") => wrec[i].out = "err"

\* the directory of test_discover_files: one .ts, one .py and one .md file
TestDir ==
    /\ Len(tree) = 3
    /\ \A k \in DOMAIN tree : tree[k].kind = "file"
    /\ { tree[k].ext : k \in DOMAIN tree } = {"ts", "py", "md"}

\* C8: discover_files never returns a file with extension .md; on the
\* directory of one .ts, one .py and one .md file it returns exactly 2 files.
C8_MarkdownExcluded ==
    /\ \A k \in DOMAIN files : to_lowercase(files[k].ext) # "md"
    /\ (TestDir /\ pc = "parsing") => Len(files) = 2

\* the extensions the classifier knows
KnownExtensions ==
    {"ts", "tsx", "js", "jsx", "mjs", "cjs", "py", "pyw", "go", "rs", "c", "h",
     "swift", "json", "yaml", "yml", "md", "markdown", "html", "htm", "css",
     "scss", "sass", "less", "plist", "sh", "bash", "zsh"}
Classified(e) == e.kind = "file" /\ to_lowercase(e.ext) \in KnownExtensions
WalkedSoFar == IF pc = "discover" THEN walkIdx - 1 ELSE Len(tree)
DiscoveryEvents ==
    SelectSeq(events, LAMBDA ev : ev.status = "analyzing" /\ ev.total_files = 0
                                  /\ ev.current_file # NoPath)

C10_UniqueTriples ==
    \A a, b \in DOMAIN result.relationships :
        (/\ result.relationships[a].source_id = result.relationships[b].source_id
         /\ result.relationships[a].target_id = result.relationships[b].target_id
         /\ result.relationships[a].kind = result.relationships[b].kind) => a = b

\* ------------------------------------------- the resolver, on parsed projects
\* projects whose files all parse: relative imports, an index file, two
\* files of one name, imports of packages
ResolveCatalogue ==
    { File(<<"src">>, "app",   "ts", << <<".", "utils">> >>, <<"main">>),
      File(<<"src">>, "main",  "ts", << <<".", "lib">>, <<"react">> >>, <<>>),
      File(<<"src">>, "utils", "ts", <<>>, <<"helper">>),
      File(<<"lib">>, "utils", "ts", <<>>, <<>>),
      File(<<"src", "lib">>, "index", "ts", <<>>, <<>>),
      File(<<>>,      "tool",  "py", << <<"os">> >>, <<"run">>) }
ResolveTrees ==
    { t \in UNION { [1..n -> ResolveCatalogue] : n \in 0..MaxResolve } : IsInjective(t) }

\* ids drawn by the workers of the first n files when they run one by one
RECURSIVE IdsUsed(_, _)
IdsUsed(t, n) == IF n = 0 THEN 0 ELSE IdsUsed(t, n - 1) + 1 + Len(t[n].syms)

\* analyze when par_iter().collect() returns for a project whose files were
\* all read and parsed, the workers having run in file order
InitResolve ==
    /\ tree \in ResolveTrees
    /\ pc = "parsing"
    /\ engines = TRUE
    /\ cancelled = FALSE
    /\ walkIdx = Len(tree) + 1
    /\ files = tree
    /\ events = [k \in DOMAIN tree |-> discovering(RelPath(tree[k]))]
                  \o <<started(Len(tree))>>
                  \o [k \in DOMAIN tree |-> parsing(RelPath(tree[k]), k, Len(tree))]
    /\ wstatus = [i \in DOMAIN tree |-> "done"]
    /\ wrec = [i \in DOMAIN tree |->
                 LET fid == IdsUsed(tree, i - 1) + 1
                     x == extract(fid, from_extension(tree[i].ext), tree[i], fid + 1)
                 IN  [file_id |-> fid, out |-> "ok", fault |-> "none",
                      recovered |-> FALSE,
                      created |-> \A j \in 1..(i - 1) :
                                    from_extension(tree[j].ext) # from_extension(tree[i].ext),
                      symbols |-> x.symbols,
                      imports |-> x.imports]]
    /\ parsers = { from_extension(tree[i].ext) : i \in DOMAIN tree }
    /\ lockHolder = 0
    /\ poisoned = FALSE
    /\ nextId = IdsUsed(tree, Len(tree)) + 1
    /\ result = NoResult
    /\ store = EmptyStore
    /\ earlyCancel = FALSE
    /\ runs = NoRuns
    /\ registered = 0
    /\ ast = NoAst
    /\ extracted = NotExtracted

NextResolve ==
    \/ AfterParsing
    \/ CommandFinish

SpecResolve == InitResolve /\ [][NextResolve]_vars

\* --------------------------------------------- the parallel phase on its own
\* a project where the order of the merged files shows: two files of one
\* name and a file importing that name
ParallelCatalogue ==
    { File(<<"src">>, "app",   "ts", << <<".", "utils">> >>, <<"main">>),
      File(<<"src">>, "utils", "ts", <<>>, <<"helper">>),
      File(<<"lib">>, "utils", "ts", <<>>, <<"other">>) }
ParallelTrees ==
    { t \in UNION { [1..n -> ParallelCatalogue] :
                      n \in 0..Cardinality(ParallelCatalogue) } : IsInjective(t) }

\* analyze right after the "started" event, no cancellation being requested
InitParallel ==
    /\ tree \in ParallelTrees
    /\ pc = "parsing"
    /\ engines = TRUE
    /\ cancelled = FALSE
    /\ walkIdx = Len(tree) + 1
    /\ files = tree
    /\ events = [k \in DOMAIN tree |-> discovering(RelPath(tree[k]))]
                  \o <<started(Len(tree))>>
    /\ wstatus = [i \in DOMAIN tree |-> "pending"]
    /\ wrec = [i \in DOMAIN tree |-> NoRec]
    /\ parsers = {}
    /\ lockHolder = 0
    /\ poisoned = FALSE
    /\ nextId = 1
    /\ result = NoResult
    /\ store = EmptyStore
    /\ earlyCancel = FALSE
    /\ runs = NoRuns
    /\ registered = 0
    /\ ast = NoAst
    /\ extracted = NotExtracted

NextParallel ==
    \/ \E i \in DOMAIN wstatus : WorkerStart(i)
    \/ \E i \in DOMAIN wstatus : WorkerLock(i)
    \/ \E i \in DOMAIN wstatus : WorkerParse(i)
    \/ AfterParsing
    \/ CommandFinish

SpecParallel == InitParallel /\ [][NextParallel]_vars

\* ------------------------------------- several start_analysis calls, one project
\* the single-run variables, which these calls leave alone
single == <<tree, pc, engines, cancelled, walkIdx, files, events, wstatus, wrec,
            parsers, lockHolder, poisoned, result, earlyCancel>>

\* Repository::clear_project_data: relationships and symbols are deleted by
\* the ids of the project's file rows, then the file rows
clear_project_data(st) ==
    LET ids == { f.id : f \in st.files } IN
    [files |-> {},
     symbols |-> { x \in st.symbols : x.file_id \notin ids },
     relationships |-> { r \in st.relationships :
                            r.source_id \notin ids /\ r.target_id \notin ids }]

\* what the workers return for files that are all read and parsed, the ids
\* being drawn in file order from firstId on
parse_all(t, firstId) ==
    [i \in DOMAIN t |->
        LET fid == firstId + IdsUsed(t, i - 1)
            x == extract(fid, from_extension(t[i].ext), t[i], fid + 1)
        IN  [file |-> [id |-> fid, name |-> FileName(t[i]), path |-> RelPath(t[i]),
                       language |-> from_extension(t[i].ext)],
             symbols |-> x.symbols, imports |-> x.imports]]

\* analyze's Ok value for such a project
analyze_ok(t, firstId) ==
    LET parsed == parse_all(t, firstId)
        all_files == [k \in DOMAIN parsed |-> parsed[k].file]
        file_imports == [id \in { parsed[k].file.id : k \in DOMAIN parsed } |->
                            LET k == CHOOSE k \in DOMAIN parsed : parsed[k].file.id = id
                            IN  parsed[k].imports]
    IN  [kind |-> "ok", error |-> "", files |-> all_files,
         symbols |-> Flatten([k \in DOMAIN parsed |-> parsed[k].symbols]),
         relationships |-> resolve_relationships(all_files, file_imports,
                                                 firstId + IdsUsed(t, Len(t)))]
ResultSize(res) == Len(res.files) + Len(res.symbols) + Len(res.relationships)

\* start_analysis up to the spawn: clear the project's rows, register a new
\* engine under the project id (replacing the one registered)
start_analysis(r) ==
    /\ runs[r].pc = "idle"
    /\ \A q \in 1..(r - 1) : runs[q].pc # "idle"
    /\ store' = clear_project_data(store)
    /\ registered' = r
    /\ runs' = [runs EXCEPT ![r].pc = "spawned"]
    /\ UNCHANGED <<single, ast, extracted, nextId>>

\* analyze, line 164: the flag of the run's engine is reset
analyze_reset(r) ==
    /\ runs[r].pc = "spawned"
    /\ runs' = [runs EXCEPT ![r].pc = "running", ![r].cancelled = FALSE]
    /\ UNCHANGED <<single, ast, extracted, nextId, store, registered>>

analyze_return_PerEngineIds(r) ==
    /\ runs[r].pc = "running"
    /\ IF runs[r].cancelled
       THEN /\ runs' = [runs EXCEPT ![r].pc = "returned",
                           ![r].result = [NoResult EXCEPT !.kind = "cancelled",
                                                          !.error = "Analysis cancelled"]]
            /\ UNCHANGED nextId
       ELSE LET res == analyze_ok(tree, 1) IN
            /\ runs' = [runs EXCEPT ![r].pc = "returned", ![r].result = res]
            /\ nextId' = nextId + ResultSize(res)
    /\ UNCHANGED <<single, ast, extracted, store, registered>>
\* analyze from its polls of the flag to its return
analyze_return(r) ==
    /\ runs[r].pc = "running"
    /\ IF runs[r].cancelled
       THEN /\ runs' = [runs EXCEPT ![r].pc = "returned",
                           ![r].result = [NoResult EXCEPT !.kind = "cancelled",
                                                          !.error = "Analysis cancelled"]]
            /\ UNCHANGED nextId
       ELSE LET res == analyze_ok(tree, nextId) IN
            /\ runs' = [runs EXCEPT ![r].pc = "returned", ![r].result = res]
            /\ nextId' = nextId + ResultSize(res)
    /\ UNCHANGED <<single, ast, extracted, store, registered>>

\* the spawned task after analyze: remove the project's entry from the map,
\* whichever call registered it, and store an Ok result
task_finish(r) ==
    /\ runs[r].pc = "returned"
    /\ registered' = 0
    /\ runs' = [runs EXCEPT ![r].pc = "finished"]
    /\ IF runs[r].result.kind = "ok"
       THEN store' =
              [files |-> upsert_files(store.files, runs[r].result.files),
               symbols |-> batch_insert_symbols(store.symbols, runs[r].result.symbols),
               relationships |->
                   batch_insert_relationships(store.relationships,
                                              runs[r].result.relationships)]
       ELSE UNCHANGED store
    /\ UNCHANGED <<single, ast, extracted, nextId>>

cancel_analysis_Toggle ==
    /\ IF registered # 0
       THEN runs' = [runs EXCEPT ![registered].cancelled = ~runs[registered].cancelled]
       ELSE UNCHANGED runs
    /\ UNCHANGED <<single, ast, extracted, nextId, store, registered>>
\* cancel_analysis: cancel the engine the map holds for the project, if any
cancel_analysis ==
    /\ IF registered # 0
       THEN runs' = [runs EXCEPT ![registered].cancelled = TRUE]
       ELSE UNCHANGED runs
    /\ UNCHANGED <<single, ast, extracted, nextId, store, registered>>

InitOverlap ==
    /\ tree \in ParallelTrees
    /\ pc = "init"
    /\ engines = FALSE
    /\ cancelled = FALSE
    /\ walkIdx = 1
    /\ files = <<>>
    /\ events = <<>>
    /\ wstatus = <<>>
    /\ wrec = <<>>
    /\ parsers = {}
    /\ lockHolder = 0
    /\ poisoned = FALSE
    /\ nextId = 1
    /\ result = NoResult
    /\ store = PriorStore
    /\ earlyCancel = FALSE
    /\ runs = NoRuns
    /\ registered = 0
    /\ ast = NoAst
    /\ extracted = NotExtracted

NextOverlap ==
    \/ \E r \in DOMAIN runs : start_analysis(r)
    \/ \E r \in DOMAIN runs : analyze_reset(r)
    \/ \E r \in DOMAIN runs : analyze_return(r)
    \/ \E r \in DOMAIN runs : task_finish(r)
    \/ cancel_analysis

SpecOverlap == InitOverlap /\ [][NextOverlap]_vars

\* --------------------------------------------------------------- extractors
\* a syntax node: its kind, the text of its name child, the keywords its
\* text begins with, in order, and the nodes of its body
Node(kind, name, mods, children) ==
    [kind |-> kind, name |-> name, mods |-> mods, children |-> children]

\* Option<String> parent_id: None, a symbol's UUID, or a formatted text
NoParent == [tag |-> "none", uuid |-> 0, text |-> <<>>]
ParentUuid(id) == [tag |-> "uuid", uuid |-> id, text |-> <<>>]
ParentText(t) == [tag |-> "text", uuid |-> 0, text |-> t]

\* create_symbol: id is the fresh UUID it draws
create_symbol(id, file_id, name, kind, is_exported, parent_id) ==
    [id |-> id, file_id |-> file_id, name |-> name, kind |-> kind,
     is_exported |-> is_exported, parent_id |-> parent_id]

\* find_child: the first child of the kind, <<>> for None
find_child(n, kind) ==
    LET hits == SelectSeq(n.children, LAMBDA c : c.kind = kind) IN
    IF hits = <<>> THEN <<>> ELSE <<Head(hits)>>
\* the name under find_child(..).map(node_text).unwrap_or("anonymous")
child_name(n, kind) ==
    IF find_child(n, kind) = <<>> THEN "anonymous" ELSE find_child(n, kind)[1].name

\* str::starts_with and str::contains on the keywords of a node's own text
text_starts_with(n, word) == n.mods # <<>> /\ n.mods[1] = word
text_contains(n, word) == \E k \in DOMAIN n.mods : n.mods[k] = word
\* name.starts_with('_') and name.chars().next().is_uppercase() on the
\* identifiers the source files carry
starts_with_underscore(name) ==
    name \in {"_helper", "__init__", "__repr__", "_Cfg"}
first_is_uppercase(name) ==
    name \in {"Greet", "String", "Point", "Shape", "Tool", "App", "Util", "State",
              "Reader", "Max", "MAX"}

\* rust.rs; a visibility_modifier child is the pub keyword on the item
is_pub(n) == text_contains(n, "pub")
rust_extract_struct(file_id, n, id) ==
    LET fields == SelectSeq(n.children, LAMBDA c : c.kind = "field_declaration") IN
    <<create_symbol(id, file_id, n.name, "struct", is_pub(n), NoParent)>>
      \o [k \in DOMAIN fields |->
            create_symbol(id + k, file_id, fields[k].name, "field",
                          is_pub(fields[k]), ParentUuid(id))]
rust_extract_impl(file_id, n, id) ==
    LET items == SelectSeq(n.children, LAMBDA c : c.kind = "function_item") IN
    [k \in DOMAIN items |->
        create_symbol(id + k - 1, file_id, items[k].name, "function",
                      is_pub(items[k]), ParentText(<<file_id, "_", n.name>>))]
rust_extract(file_id, n, id) ==
    CASE n.kind = "function_item" ->
            <<create_symbol(id, file_id, n.name, "function", is_pub(n), NoParent)>>
      [] n.kind = "struct_item" -> rust_extract_struct(file_id, n, id)
      [] n.kind = "enum_item" ->
            <<create_symbol(id, file_id, n.name, "enum", is_pub(n), NoParent)>>
      [] n.kind = "trait_item" ->
            <<create_symbol(id, file_id, n.name, "trait", is_pub(n), NoParent)>>
      [] n.kind = "impl_item" -> rust_extract_impl(file_id, n, id)
      [] n.kind \in {"const_item", "static_item"} ->
            <<create_symbol(id, file_id, n.name,
                            IF n.kind = "const_item" THEN "constant" ELSE "variable",
                            is_pub(n), NoParent)>>
      [] n.kind = "type_item" ->
            <<create_symbol(id, file_id, n.name, "type", is_pub(n), NoParent)>>
      [] n.kind = "mod_item" ->
            <<create_symbol(id, file_id, n.name, "module", is_pub(n), NoParent)>>
      [] OTHER -> <<>>

\* python.rs
python_function_is_exported_NoInit(name) == ~starts_with_underscore(name)
\* extract_function, line 119
python_function_is_exported(name) ==
    ~starts_with_underscore(name) \/ name = "__init__"
python_extract_function(file_id, n, parent_id, id) ==
    create_symbol(id, file_id, n.name, "function",
                  python_function_is_exported(n.name), parent_id)
python_member_function(m) ==
    CASE m.kind = "function_definition" -> <<m>>
      [] m.kind = "decorated_definition" -> find_child(m, "function_definition")
      [] OTHER -> <<>>
python_extract_class(file_id, n, id) ==
    LET methods == Flatten([k \in DOMAIN n.children |->
                               python_member_function(n.children[k])]) IN
    <<create_symbol(id, file_id, n.name, "class",
                    ~starts_with_underscore(n.name), NoParent)>>
      \o [k \in DOMAIN methods |->
            python_extract_function(file_id, methods[k], ParentUuid(id), id + k)]
python_extract(file_id, n, id) ==
    CASE n.kind = "function_definition" ->
            <<python_extract_function(file_id, n, NoParent, id)>>
      [] n.kind = "class_definition" -> python_extract_class(file_id, n, id)
      [] n.kind = "decorated_definition" ->
            IF find_child(n, "function_definition") # <<>>
            THEN <<python_extract_function(file_id,
                      find_child(n, "function_definition")[1], NoParent, id)>>
            ELSE IF find_child(n, "class_definition") # <<>>
            THEN python_extract_class(file_id, find_child(n, "class_definition")[1], id)
            ELSE <<>>
      [] OTHER -> <<>>

\* typescript.rs
typescript_extract_class(file_id, n, is_exported, id) ==
    LET members == SelectSeq(n.children, LAMBDA c :
                      c.kind \in {"method_definition", "public_field_definition",
                                  "field_definition"}) IN
    <<create_symbol(id, file_id, n.name, "class", is_exported, NoParent)>>
      \o [k \in DOMAIN members |->
            create_symbol(id + k, file_id, members[k].name,
                          IF members[k].kind = "method_definition"
                          THEN "method" ELSE "property",
                          FALSE, ParentUuid(id))]
typescript_extract_variable(file_id, n, is_exported, id) ==
    LET decls == SelectSeq(n.children, LAMBDA c : c.kind = "variable_declarator") IN
    [k \in DOMAIN decls |->
        create_symbol(id + k - 1, file_id, decls[k].name,
                      IF find_child(decls[k], "arrow_function") # <<>>
                         \/ find_child(decls[k], "function") # <<>>
                      THEN "function" ELSE "variable",
                      is_exported, NoParent)]
typescript_declaration(file_id, n, is_exported, id) ==
    CASE n.kind = "function_declaration" ->
            <<create_symbol(id, file_id, n.name, "function", is_exported, NoParent)>>
      [] n.kind = "class_declaration" ->
            typescript_extract_class(file_id, n, is_exported, id)
      [] n.kind = "interface_declaration" ->
            <<create_symbol(id, file_id, n.name, "interface", is_exported, NoParent)>>
      [] n.kind = "type_alias_declaration" ->
            <<create_symbol(id, file_id, n.name, "type", is_exported, NoParent)>>
      [] n.kind = "enum_declaration" ->
            <<create_symbol(id, file_id, n.name, "enum", is_exported, NoParent)>>
      [] n.kind \in {"lexical_declaration", "variable_declaration"} ->
            typescript_extract_variable(file_id, n, is_exported, id)
      [] OTHER -> <<>>
RECURSIVE typescript_extract_export(_, _, _)
typescript_extract_export(file_id, nodes, id) ==
    IF nodes = <<>> THEN <<>>
    ELSE LET here == typescript_declaration(file_id, Head(nodes), TRUE, id) IN
         here \o typescript_extract_export(file_id, Tail(nodes), id + Len(here))
typescript_extract(file_id, n, id) ==
    IF n.kind = "export_statement"
    THEN typescript_extract_export(file_id, n.children, id)
    ELSE typescript_declaration(file_id, n, FALSE, id)

\* go.rs: no symbol is given a parent
go_extract_type(file_id, n, id) ==
    LET specs == SelectSeq(n.children, LAMBDA c : c.kind = "type_spec") IN
    [k \in DOMAIN specs |->
        create_symbol(id + k - 1, file_id, specs[k].name,
                      IF find_child(specs[k], "struct_type") # <<>> THEN "struct"
                      ELSE IF find_child(specs[k], "interface_type") # <<>>
                      THEN "interface" ELSE "type",
                      first_is_uppercase(specs[k].name), NoParent)]
go_extract_var_const(file_id, n, id) ==
    LET specs == SelectSeq(n.children, LAMBDA c : c.kind \in {"const_spec", "var_spec"}) IN
    [k \in DOMAIN specs |->
        create_symbol(id + k - 1, file_id, specs[k].name,
                      IF n.kind = "const_declaration" THEN "constant" ELSE "variable",
                      first_is_uppercase(specs[k].name), NoParent)]
go_extract(file_id, n, id) ==
    CASE n.kind = "function_declaration" ->
            <<create_symbol(id, file_id, n.name, "function",
                            first_is_uppercase(n.name), NoParent)>>
      [] n.kind = "method_declaration" ->
            <<create_symbol(id, file_id, n.name, "method",
                            first_is_uppercase(n.name), NoParent)>>
      [] n.kind = "type_declaration" -> go_extract_type(file_id, n, id)
      [] n.kind \in {"const_declaration", "var_declaration"} ->
            go_extract_var_const(file_id, n, id)
      [] OTHER -> <<>>

\* c.rs: no symbol is given a parent
c_extract_function(file_id, n, id) ==
    IF find_child(n, "function_declarator") = <<>> THEN <<>>
    ELSE <<create_symbol(id, file_id, find_child(n, "function_declarator")[1].name,
                         "function", ~text_starts_with(n, "static"), NoParent)>>
c_extract_declaration(file_id, n, id) ==
    IF find_child(n, "function_declarator") # <<>>
    THEN <<create_symbol(id, file_id, find_child(n, "function_declarator")[1].name,
                         "function", TRUE, NoParent)>>
    ELSE LET vars_ == SelectSeq(n.children, LAMBDA c :
                         c.kind \in {"init_declarator", "identifier"}) IN
         [k \in DOMAIN vars_ |->
             create_symbol(id + k - 1, file_id, vars_[k].name,
                           IF text_contains(n, "const") THEN "constant" ELSE "variable",
                           ~text_starts_with(n, "static"), NoParent)]
c_extract_type_def(file_id, n, id) ==
    <<create_symbol(id, file_id, child_name(n, "type_identifier"),
                    CASE n.kind = "struct_specifier" -> "struct"
                      [] n.kind = "union_specifier" -> "union"
                      [] n.kind = "enum_specifier" -> "enum"
                      [] OTHER -> "type",
                    TRUE, NoParent)>>
c_extract_typedef(file_id, n, id) ==
    LET identifiers == SelectSeq(n.children, LAMBDA c : c.kind = "type_identifier") IN
    IF identifiers = <<>> THEN <<>>
    ELSE <<create_symbol(id, file_id, Last(identifiers).name, "type", TRUE, NoParent)>>
c_extract(file_id, n, id) ==
    CASE n.kind = "function_definition" -> c_extract_function(file_id, n, id)
      [] n.kind = "declaration" -> c_extract_declaration(file_id, n, id)
      [] n.kind \in {"struct_specifier", "union_specifier", "enum_specifier"} ->
            IF find_child(n, "field_declaration_list") # <<>>
               \/ find_child(n, "enumerator_list") # <<>>
            THEN c_extract_type_def(file_id, n, id) ELSE <<>>
      [] n.kind = "type_definition" -> c_extract_typedef(file_id, n, id)
      [] OTHER -> <<>>

\* swift.rs, extract_node: the walk carries the enclosing type's id down
SwiftTypes == {"class_declaration", "struct_declaration", "enum_declaration",
               "protocol_declaration"}
swift_type_kind(k) ==
    CASE k = "enum_declaration" -> "enum"
      [] k = "protocol_declaration" -> "interface"
      [] OTHER -> "class"
\* is_exported: "public " or "open " anywhere in the node's text, body included
RECURSIVE swift_is_exported(_)
swift_is_exported(n) ==
    \/ text_contains(n, "public") \/ text_contains(n, "open")
    \/ \E k \in DOMAIN n.children : swift_is_exported(n.children[k])
RECURSIVE swift_extract_node(_, _, _, _)
swift_extract_node(file_id, nodes, parent_id, id) ==
    IF nodes = <<>> THEN <<>>
    ELSE LET n == Head(nodes)
             here ==
               CASE n.kind = "import_declaration" -> <<>>
                 [] n.kind \in SwiftTypes ->
                      <<create_symbol(id, file_id, n.name, swift_type_kind(n.kind),
                                      swift_is_exported(n), NoParent)>>
                        \o swift_extract_node(file_id, n.children, ParentUuid(id), id + 1)
                 [] n.kind = "function_declaration" ->
                      <<create_symbol(id, file_id, n.name,
                                      IF parent_id.tag # "none" THEN "method"
                                      ELSE "function",
                                      swift_is_exported(n), parent_id)>>
                 [] n.kind = "property_declaration" ->
                      <<create_symbol(id, file_id, n.name,
                                      IF text_starts_with(n, "let") THEN "constant"
                                      ELSE "variable",
                                      swift_is_exported(n), parent_id)>>
                 [] n.kind = "typealias_declaration" ->
                      <<create_symbol(id, file_id, n.name, "type",
                                      swift_is_exported(n), parent_id)>>
                 [] n.kind = "extension_declaration" ->
                      swift_extract_node(file_id, n.children, NoParent, id)
                 [] OTHER -> swift_extract_node(file_id, n.children, parent_id, id)
         IN  here \o swift_extract_node(file_id, Tail(nodes), parent_id, id + Len(here))

\* the loop of extract over the root's children, in the five extractors
\* that match on the child's kind
extract_item(lang, file_id, n, id) ==
    CASE lang = "rust" -> rust_extract(file_id, n, id)
      [] lang = "python" -> python_extract(file_id, n, id)
      [] lang \in {"typescript", "javascript"} -> typescript_extract(file_id, n, id)
      [] lang = "go" -> go_extract(file_id, n, id)
      [] lang = "c" -> c_extract(file_id, n, id)
      [] OTHER -> <<>>
RECURSIVE extract_children(_, _, _, _)
extract_children(lang, file_id, nodes, id) ==
    IF nodes = <<>> THEN <<>>
    ELSE LET here == extract_item(lang, file_id, Head(nodes), id) IN
         here \o extract_children(lang, file_id, Tail(nodes), id + Len(here))

\* the symbols of Parser::parse_file's dispatch on the language
extract_symbols(lang, file_id, nodes, firstId) ==
    IF lang = "swift" THEN swift_extract_node(file_id, nodes, NoParent, firstId)
    ELSE extract_children(lang, file_id, nodes, firstId)

\* top-level nodes of source files, per language
ItemsOf(lang) ==
    CASE lang = "rust" ->
           { Node("function_item", "greet", <<"pub">>, <<>>),
             Node("struct_item", "Point", <<"pub">>,
                  <<Node("field_declaration", "x", <<>>, <<>>),
                    Node("field_declaration", "y", <<"pub">>, <<>>)>>),
             Node("impl_item", "Point", <<>>,
                  <<Node("function_item", "new", <<"pub">>, <<>>)>>),
             Node("trait_item", "Shape", <<>>, <<>>),
             Node("const_item", "MAX", <<"pub">>, <<>>),
             Node("mod_item", "util", <<>>, <<>>) }
      [] lang = "python" ->
           { Node("function_definition", "_helper", <<>>, <<>>),
             Node("function_definition", "run", <<>>, <<>>),
             Node("class_definition", "Tool", <<>>,
                  <<Node("function_definition", "__init__", <<>>, <<>>),
                    Node("expression_statement", "", <<>>, <<>>),
                    Node("function_definition", "__repr__", <<>>, <<>>),
                    Node("decorated_definition", "", <<>>,
                         <<Node("function_definition", "name", <<>>, <<>>)>>)>>),
             Node("decorated_definition", "", <<>>,
                  <<Node("class_definition", "_Cfg", <<>>,
                         <<Node("function_definition", "load", <<>>, <<>>)>>)>>) }
      [] lang = "typescript" ->
           { Node("function_declaration", "main", <<>>, <<>>),
             Node("class_declaration", "App", <<>>,
                  <<Node("method_definition", "run", <<>>, <<>>),
                    Node("field_definition", "name", <<>>, <<>>)>>),
             Node("lexical_declaration", "", <<"const">>,
                  <<Node("variable_declarator", "handler", <<>>,
                         <<Node("arrow_function", "", <<>>, <<>>)>>),
                    Node("variable_declarator", "limit", <<>>, <<>>)>>),
             Node("export_statement", "", <<"export">>,
                  <<Node("class_declaration", "Util", <<>>,
                         <<Node("method_definition", "help", <<>>, <<>>)>>)>>) }
      [] lang = "swift" ->
           { Node("function_declaration", "main", <<>>, <<>>),
             Node("class_declaration", "App", <<>>,
                  <<Node("property_declaration", "name", <<"let">>, <<>>),
                    Node("struct_declaration", "State", <<>>,
                         <<Node("function_declaration", "reset", <<"public">>, <<>>)>>),
                    Node("function_declaration", "run", <<>>, <<>>)>>),
             Node("protocol_declaration", "Reader", <<"public">>, <<>>),
             Node("extension_declaration", "App", <<>>,
                  <<Node("function_declaration", "stop", <<>>, <<>>)>>) }
      [] lang = "go" ->
           { Node("function_declaration", "Greet", <<>>, <<>>),
             Node("method_declaration", "String", <<>>, <<>>),
             Node("function_declaration", "helper", <<>>, <<>>),
             Node("type_declaration", "", <<"type">>,
                  <<Node("type_spec", "Point", <<>>,
                         <<Node("struct_type", "", <<>>, <<>>)>>),
                    Node("type_spec", "reader", <<>>,
                         <<Node("interface_type", "", <<>>, <<>>)>>)>>),
             Node("const_declaration", "", <<"const">>,
                  <<Node("const_spec", "Max", <<>>, <<>>)>>) }
      [] lang = "c" ->
           { Node("function_definition", "", <<>>,
                  <<Node("function_declarator", "main", <<>>, <<>>)>>),
             Node("function_definition", "", <<"static">>,
                  <<Node("function_declarator", "helper", <<>>, <<>>)>>),
             Node("declaration", "", <<>>,
                  <<Node("function_declarator", "shown", <<>>, <<>>)>>),
             Node("declaration", "", <<"static">>,
                  <<Node("function_declarator", "hidden", <<>>, <<>>)>>),
             Node("declaration", "", <<"static">>,
                  <<Node("identifier", "counter", <<>>, <<>>)>>),
             Node("declaration", "", <<"const", "static">>,
                  <<Node("init_declarator", "limit", <<>>, <<>>)>>),
             Node("declaration", "", <<>>,
                  <<Node("identifier", "total", <<>>, <<>>)>>),
             Node("union_specifier", "", <<"union">>,
                  <<Node("type_identifier", "value", <<>>, <<>>),
                    Node("field_declaration_list", "", <<>>, <<>>)>>),
             Node("struct_specifier", "", <<"struct">>,
                  <<Node("type_identifier", "node", <<>>, <<>>)>>),
             Node("type_definition", "", <<"typedef">>,
                  <<Node("type_identifier", "size", <<>>, <<>>)>>) }
      [] OTHER -> {}
ExtractorLanguages == Parseable \cup {"swift"}
Sources ==
    UNION { { [lang |-> lang, items |-> items] :
                items \in UNION { [1..n -> ItemsOf(lang)] : n \in 0..MaxItems } } :
            lang \in ExtractorLanguages \ {"javascript"} }

\* Parser::parse_file from the root node on: the extractor of the file's
\* language fills ParseResult.symbols
ExtractFile ==
    /\ ~extracted.done
    /\ ast.lang \in ExtractorLanguages
    /\ LET syms == extract_symbols(ast.lang, nextId, ast.items, nextId + 1) IN
       /\ extracted' = [done |-> TRUE, file_id |-> nextId, symbols |-> syms]
       /\ nextId' = nextId + 1 + Len(syms)
    /\ UNCHANGED <<single, ast, store, runs, registered>>

InitExtract ==
    /\ ast \in Sources
    /\ extracted = NotExtracted
    /\ tree = <<>>
    /\ pc = "init"
    /\ engines = FALSE
    /\ cancelled = FALSE
    /\ walkIdx = 1
    /\ files = <<>>
    /\ events = <<>>
    /\ wstatus = <<>>
    /\ wrec = <<>>
    /\ parsers = {}
    /\ lockHolder = 0
    /\ poisoned = FALSE
    /\ nextId = 1
    /\ result = NoResult
    /\ store = EmptyStore
    /\ earlyCancel = FALSE
    /\ runs = NoRuns
    /\ registered = 0

NextExtract == ExtractFile

SpecExtract == InitExtract /\ [][NextExtract]_vars

\* ids of the result's symbols, and of the files a fault dropped
SymbolIds == { result.symbols[k].id : k \in DOMAIN result.symbols }
DroppedIds == { wrec[i].file_id : i \in { j \in DOMAIN wrec : wrec[j].out # "ok" } }
ResultFileIds == { result.files[k].id : k \in DOMAIN result.files }

\* C11: every relationship of a successful result has kind "imports", its
\* source is the id of a parsed file of the result that holds an import, its
\* target is the id of a file of the result; no endpoint is a symbol id or
\* the id of a file a fault dropped.
C11_EndpointsAreResultFiles ==
    \A k \in DOMAIN result.relationships :
        LET r == result.relationships[k] IN
        /\ r.kind = "imports"
        /\ r.source_id \in ResultFileIds /\ r.target_id \in ResultFileIds
        /\ \E i \in DOMAIN wrec :
              /\ wrec[i].out = "ok" /\ wrec[i].file_id = r.source_id
              /\ wrec[i].imports # <<>>
        /\ {r.source_id, r.target_id} \cap (SymbolIds \cup DroppedIds) = {}

\* C11 witness: a successful result holds a relationship between two files
C11_Witness ==
    /\ result.kind = "ok"
    /\ \E k \in DOMAIN result.relationships :
          result.relationships[k].source_id # result.relationships[k].target_id

\* the rows of the run's result that the store holds
FilesStored ==
    \A k \in DOMAIN result.files :
        \E row \in store.files : row.path = result.files[k].path
SymbolsStored == Range(result.symbols) \subseteq store.symbols
RelationshipsStored ==
    \A k \in DOMAIN result.relationships :
        \E row \in store.relationships :
            /\ row.source_id = result.relationships[k].source_id
            /\ row.target_id = result.relationships[k].target_id
            /\ row.kind = result.relationships[k].kind

\* C15: analyze itself never emits complete, and a complete event is on the
\* stream only when the run's files, symbols and relationships are all in
\* the store.
C15_CompleteOnlyAfterCommit ==
    /\ pc # "finished" => ~HasEvent("complete")
    /\ HasEvent("complete") =>
          FilesStored /\ SymbolsStored /\ RelationshipsStored

HasWalkError == \E k \in DOMAIN tree : tree[k].kind = "err"

\* C16: a walk that yields an error is fatal: analyze returns the error at
\* once, nothing but the discovery events of the entries before the fault is
\* emitted, no worker starts, and the run ends with one error event.
C16_DiscoveryFaultIsFatal ==
    HasWalkError =>
        /\ pc \notin {"parsing"} /\ wstatus = <<>>
        /\ walkIdx <= Len(tree) /\ \A k \in 1..(walkIdx - 1) : tree[k].kind # "err"
        /\ Returned => /\ result.kind = "error" /\ tree[walkIdx].kind = "err"
                       /\ result.files = <<>>
        /\ \A k \in DOMAIN events :
              \/ events[k] \in { discovering(RelPath(tree[j])) : j \in 1..(walkIdx - 1) }
              \/ (k = Len(events) /\ pc = "finished" /\ events[k].status = "error")
        /\ pc = "finished" => events[Len(events)].status = "error"

\* C16 witness: the walk failed after a file had been discovered, and the
\* run has ended
C16_Witness ==
    /\ pc = "finished" /\ result.kind = "error"
    /\ Len(files) = 1 /\ Len(events) = 2

\* an import path without its "." components
Normalize(p) == SelectSeq(p, LAMBDA c : c # ".")
IsRelative(imp) == imp # <<>> /\ imp[1] = "."
\* the files of the result at D/X plus a known suffix, for './X' imported from D
SiblingFiles(f, imp) ==
    { g \in Range(result.files) :
        \E k \in DOMAIN Suffixes :
            g.path = WithSuffix(Normalize(Front(f.path) \o imp), Suffixes[k]) }
\* the index files of the result under D/X
IndexFilesOf(f, imp) ==
    { g \in Range(result.files) :
        \E k \in DOMAIN IndexFiles :
            g.path = Normalize(Front(f.path) \o imp) \o <<IndexFiles[k]>> }
HasEdge(f, targets) ==
    \E k \in DOMAIN result.relationships :
        /\ result.relationships[k].source_id = f.id
        /\ result.relationships[k].target_id \in { g.id : g \in targets }
ImportsOf(f) ==
    LET i == CHOOSE i \in DOMAIN wrec : wrec[i].file_id = f.id IN wrec[i].imports

\* C12: a relative import './X' in a file of directory D resolves to the
\* file D/X plus a known suffix whenever the project holds one, whatever
\* other files it holds.
C12_RelativeImportResolves ==
    result.kind = "ok" =>
        \A f \in Range(result.files) :
            \A k \in DOMAIN ImportsOf(f) :
                LET imp == ImportsOf(f)[k] IN
                (IsRelative(imp) /\ SiblingFiles(f, imp) # {})
                    => HasEdge(f, SiblingFiles(f, imp))

\* C13: a relative import './X' with no file D/X plus suffix but an index
\* file under D/X resolves to that index file.
C13_IndexFileFallback ==
    result.kind = "ok" =>
        \A f \in Range(result.files) :
            \A k \in DOMAIN ImportsOf(f) :
                LET imp == ImportsOf(f)[k] IN
                (IsRelative(imp) /\ SiblingFiles(f, imp) = {}
                                 /\ IndexFilesOf(f, imp) # {})
                    => HasEdge(f, IndexFilesOf(f, imp))

\* the keys resolve_import probes for an import of file f
PathProbes(f, imp) ==
    IF imp # <<>> /\ imp[1] \in DotLeading
    THEN { WithSuffix(Front(f.path) \o imp, Suffixes[k]) : k \in DOMAIN Suffixes }
         \cup { Front(f.path) \o imp \o <<IndexFiles[k]>> : k \in DOMAIN IndexFiles }
    ELSE {}
NameProbes(imp) ==
    IF Normalize(imp) = <<>> THEN {}
    ELSE { Last(Normalize(imp)) \o Suffixes[k] : k \in DOMAIN Suffixes }
Matched(f, imp) ==
    \E g \in Range(result.files) :
        g.path \in PathProbes(f, imp) \/ g.name \in NameProbes(imp)

\* C14: an import that matches no key of the path index and no key of the
\* name index yields no relationship and no error: each file is the source
\* of exactly as many relationships as it has matching imports, and the run
\* still succeeds.
C14_UnmatchedImportIsSilent ==
    /\ (pc \in {"returned", "finished"} /\ cancelled = FALSE) => result.kind = "ok"
    /\ pc = "finished" /\ result.kind = "ok" => ~HasEvent("error")
    /\ result.kind = "ok" =>
        \A f \in Range(result.files) :
            Cardinality({ k \in DOMAIN result.relationships :
                            result.relationships[k].source_id = f.id })
              = Cardinality({ k \in DOMAIN ImportsOf(f) : Matched(f, ImportsOf(f)[k]) })

\* C14 witness: a finished, successful run over a file whose import of a
\* package matches nothing, next to an import that resolved
C14_Witness ==
    /\ pc = "finished" /\ HasEvent("complete")
    /\ \E f \in Range(result.files) :
          \E k \in DOMAIN ImportsOf(f) : ~Matched(f, ImportsOf(f)[k])
    /\ result.relationships # <<>>

\* the discovered files no fault hit, in file order, and what one worker
\* running alone over them in that order would return, each file's id being
\* its index
SequentialFiles ==
    [k \in DOMAIN Sound |->
        [id |-> Sound[k], name |-> FileName(files[Sound[k]]),
         path |-> RelPath(files[Sound[k]]),
         language |-> from_extension(files[Sound[k]].ext)]]
SequentialRelationships ==
    resolve_relationships(SequentialFiles,
                          [i \in Range(Sound) |-> files[i].imports], 1)
PathOfId(id) ==
    LET f == CHOOSE f \in Range(result.files) : f.id = id IN f.path

\* C17: with no cancellation and fixed files and fault outcomes, every
\* interleaving of the workers returns the same set of files, symbols and
\* relationships up to ids: the one a single worker would return.
C17_InterleavingIndependent ==
    result.kind = "ok" =>
        /\ { [path |-> f.path, name |-> f.name, language |-> f.language] :
                f \in Range(result.files) }
             = { [path |-> f.path, name |-> f.name, language |-> f.language] :
                    f \in Range(SequentialFiles) }
        /\ { <<PathOfId(x.file_id), x.name>> : x \in Range(result.symbols) }
             = UNION { { <<RelPath(files[i]), files[i].syms[k]>> :
                           k \in DOMAIN files[i].syms } : i \in Range(Sound) }
        /\ { <<PathOfId(r.source_id), PathOfId(r.target_id), r.kind>> :
                r \in Range(result.relationships) }
             = { <<RelPath(files[r.source_id]), RelPath(files[r.target_id]), r.kind>> :
                    r \in Range(SequentialRelationships) }

\* C17 witness: a successful result of three files whose workers did not
\* start in file order, with a relationship in it
C17_Witness ==
    /\ result.kind = "ok" /\ Len(result.files) = Cardinality(ParallelCatalogue)
    /\ result.relationships # <<>>
    /\ \E i, j \in DOMAIN wrec : i < j /\ wrec[j].file_id < wrec[i].file_id

\* the ids a result holds
IdsOf(res) ==
    { f.id : f \in Range(res.files) } \cup { x.id : x \in Range(res.symbols) }
        \cup { r.id : r \in Range(res.relationships) }

\* C19: the ids of two runs over the same files are disjoint, and within one
\* result the ids of files, symbols and relationships are pairwise distinct.
C19_FreshIds ==
    /\ \A r \in DOMAIN runs :
          Cardinality(IdsOf(runs[r].result)) = ResultSize(runs[r].result)
    /\ \A r1, r2 \in DOMAIN runs :
          r1 # r2 => IdsOf(runs[r1].result) \cap IdsOf(runs[r2].result) = {}

\* C19 witness: two runs over the same files have both returned a result
\* with files, symbols and a relationship
C19_Witness ==
    \E r1, r2 \in DOMAIN runs :
        /\ r1 # r2
        /\ runs[r1].result.kind = "ok" /\ runs[r2].result.kind = "ok"
        /\ runs[r1].result.relationships # <<>> /\ runs[r1].result.symbols # <<>>
        /\ runs[r2].result.relationships # <<>>

\* the store holds exactly the rows of the result res
HoldsExactly(res) ==
    /\ store.files = Range(res.files)
    /\ store.symbols = Range(res.symbols)
    /\ store.relationships \subseteq Range(res.relationships)
    /\ \A x \in Range(res.relationships) :
          \E row \in store.relationships :
              /\ row.source_id = x.source_id /\ row.target_id = x.target_id
              /\ row.kind = x.kind

\* C20: once every start_analysis call made for the project has finished,
\* none of them cancelled, the store holds exactly the files, symbols and
\* relationships of one of the runs, each file under that run's id.
C20_StoreHoldsOneRun ==
    ( /\ \E r \in DOMAIN runs : runs[r].pc # "idle"
      /\ \A r \in DOMAIN runs :
            \/ runs[r].pc = "idle"
            \/ runs[r].pc = "finished" /\ runs[r].result.kind = "ok" )
    => \E r \in DOMAIN runs : runs[r].pc = "finished" /\ HoldsExactly(runs[r].result)

\* C18: every symbol an extractor produced with a parent carries, as
\* parent_id, the id of a symbol of the same file appended before it.
C18_ParentIsEarlierSymbol ==
    \A k \in DOMAIN extracted.symbols :
        LET x == extracted.symbols[k] IN
        x.parent_id.tag # "none" =>
            /\ x.parent_id.tag = "uuid"
            /\ \E j \in 1..(k - 1) :
                  /\ extracted.symbols[j].id = x.parent_id.uuid
                  /\ extracted.symbols[j].file_id = x.file_id

\* C21: once the engine of a language is in the cache, a worker arriving at
\* Parser::parse for a file of that language does not wait for a worker that
\* is parsing: it can take its turn at once.
C21_NoWaitOnceCached ==
    \A i \in DOMAIN wstatus :
        (wstatus[i] = "started" /\ LangOf(i) \in parsers) => ENABLED WorkerLock(i)

\* C22: a worker that takes the parser mutex after a crash under the guard
\* parses with an engine built anew in that call, not with the cached one.
C22_RebuildAfterCrash ==
    \A i \in DOMAIN wstatus :
        (wstatus[i] = "done" /\ wrec[i].recovered
            /\ \E j \in DOMAIN wrec : /\ j # i /\ wrec[j].fault = "panic_locked"
                                      /\ LangOf(j) = LangOf(i))
        => wrec[i].created

\* C23: cancel_analysis with no engine registered for the project changes
\* nothing; with one registered it sets that engine's flag and nothing else,
\* and on an engine already cancelled it changes nothing.
C23_CancelIdempotent ==
    [][cancel_analysis =>
          /\ registered = 0 => UNCHANGED vars
          /\ registered # 0 =>
                /\ runs'[registered].cancelled
                /\ runs' = [runs EXCEPT ![registered].cancelled = TRUE]
                /\ runs[registered].cancelled => UNCHANGED vars]_vars

\* C23 witness: a cancel has reached the engine of a run in flight
C23_Witness ==
    registered # 0 /\ runs[registered].cancelled /\ runs[registered].pc = "running"

\* the calls whose run is in flight: engine registered, analyze not returned
InFlight == { r \in DOMAIN runs : runs[r].pc \in {"spawned", "running"} }

\* C29: cancel_analysis sets the cancellation flag of the engine of every
\* run of the project that is in flight.
C29_CancelReachesEveryRun ==
    [][cancel_analysis => \A r \in InFlight : runs'[r].cancelled]_vars

\* C28: a relative import that matches neither D/X plus a suffix nor an
\* index file under D/X yields no relationship, even when a file of that
\* name exists elsewhere: a file whose imports are all of that sort is the
\* source of no relationship.
C28_RelativeSkipsNameIndex ==
    result.kind = "ok" =>
        \A f \in Range(result.files) :
            (\A k \in DOMAIN ImportsOf(f) :
                LET imp == ImportsOf(f)[k] IN
                /\ IsRelative(imp)
                /\ SiblingFiles(f, imp) = {} /\ IndexFilesOf(f, imp) = {})
            => ~\E k \in DOMAIN result.relationships :
                    result.relationships[k].source_id = f.id

\* the events of a run by what they carry
ResolvingMark == <<"Resolving relationships...">>
StartedAt == { k \in DOMAIN events :
                 events[k].status = "analyzing" /\ events[k].current_file = NoPath }
ResolvingAt == { k \in DOMAIN events :
                   events[k].status = "analyzing"
                   /\ events[k].current_file = ResolvingMark }
DiscoveryAt == { k \in DOMAIN events :
                   /\ events[k].status = "analyzing" /\ events[k].total_files = 0
                   /\ events[k].current_file \notin {NoPath, ResolvingMark} }
ParsingAt == { k \in DOMAIN events :
                 /\ events[k].status = "analyzing"
                 /\ k \notin StartedAt \cup ResolvingAt \cup DiscoveryAt }
EventOrder ==
    /\ Cardinality(StartedAt) <= 1 /\ Cardinality(ResolvingAt) <= 1
    /\ \A d \in DiscoveryAt : \A k \in StartedAt : d < k
    /\ \A k \in StartedAt : events[k].total_files = Cardinality(DiscoveryAt)
    /\ \A q \in ParsingAt :
          /\ \E k \in StartedAt :
                /\ k < q
                /\ events[q].files_processed >= 1
                /\ events[q].files_processed <= events[k].total_files
                /\ events[q].total_files = events[k].total_files
          /\ \A q2 \in ParsingAt :
                events[q2].files_processed = events[q].files_processed => q2 = q
          /\ \A k \in ResolvingAt : q < k
    /\ \A k \in ResolvingAt :
          /\ events[k].percent_complete = 90
          /\ StartedAt # {} /\ ~HasEvent("cancelled")
          /\ Returned => result.kind = "ok"

\* C27: within one run every discovery event precedes the single started
\* event, which carries the number of discovered files; every parsing event
\* follows it with an index from 1 to that number, each index once; the
\* resolving event at 90% comes once, after every parsing event, and is
\* emitted only by a step that finds the flag unset after parsing.
C27_EventOrder ==
    /\ []EventOrder
    /\ [][(Len(events') = Len(events) + 1
            /\ events'[Len(events')].current_file = ResolvingMark)
          => (~cancelled /\ AllWorkersDone /\ pc = "parsing")]_vars

\* C27 witness: a finished run with two parsing events, the later file's
\* first, and the resolving event
C27_Witness ==
    /\ pc = "finished" /\ ResolvingAt # {} /\ Cardinality(ParsingAt) = 2
    /\ \E q1, q2 \in ParsingAt :
          q1 < q2 /\ events[q1].files_processed > events[q2].files_processed

\* C30: the statistics of the complete event are the numbers of file,
\* symbol and relationship rows the store holds for the project when the
\* event is emitted.
C30_StatisticsMatchStore ==
    \A k \in DOMAIN events :
        events[k].status = "complete" =>
            /\ events[k].statistics.total_files = Cardinality(store.files)
            /\ events[k].statistics.total_symbols = Cardinality(store.symbols)
            /\ events[k].statistics.total_relationships
                  = Cardinality(store.relationships)

\* C24: every symbol an extractor produces has one of the twelve kinds
\* function, method, class, struct, enum, interface, type, module, field,
\* property, variable, constant.
TwelveKinds ==
    {"function", "method", "class", "struct", "enum", "interface", "type",
     "module", "field", "property", "variable", "constant"}
C24_KindsAreTheTwelve ==
    extracted.done =>
        \A k \in DOMAIN extracted.symbols : extracted.symbols[k].kind \in TwelveKinds

\* C25: a Python function or method is exported exactly when its name does not
\* begin with an underscore or is __init__: __init__, run, name and load are
\* exported, _helper and __repr__ are not.
PythonPublicNames == {"run", "name", "load", "__init__"}
PythonPrivateNames == {"_helper", "__repr__"}
PythonFunctions ==
    { extracted.symbols[k] : k \in { j \in DOMAIN extracted.symbols :
                                        extracted.symbols[j].kind = "function" } }
C25_PythonExportHeuristic ==
    (extracted.done /\ ast.lang = "python") =>
        \A f \in PythonFunctions :
            /\ f.name \in PythonPublicNames \cup PythonPrivateNames
            /\ f.is_exported <=> f.name \in PythonPublicNames
C25_Witness ==
    /\ extracted.done /\ ast.lang = "python"
    /\ \E f \in PythonFunctions : f.name = "__init__" /\ f.is_exported
    /\ \E f \in PythonFunctions : f.name = "_helper" /\ ~f.is_exported

\* C26: a C function definition, prototype, variable or constant is exported
\* exactly when its declaration does not carry the static keyword.
DeclaredNames(n) ==
    { n.children[k].name : k \in { j \in DOMAIN n.children :
          n.children[j].kind \in {"function_declarator", "init_declarator", "identifier"} } }
DeclaredStatic ==
    UNION { DeclaredNames(ast.items[k]) :
              k \in { j \in DOMAIN ast.items :
                        \E m \in DOMAIN ast.items[j].mods : ast.items[j].mods[m] = "static" } }
C26_StaticIsNotExported ==
    (extracted.done /\ ast.lang = "c") =>
        \A k \in DOMAIN extracted.symbols :
            LET sym == extracted.symbols[k] IN
            sym.kind \in {"function", "variable", "constant"} =>
                (sym.is_exported <=> sym.name \notin DeclaredStatic)

====
